---- MODULE Spec2Model ----
(***************************************************************************)
(* Model of w3f/mooc-exercises, solutions/2_public_key_crypto/src/main.rs: *)
(* the toy RSA key generation, signing and verification program.           *)
(*                                                                         *)
(* The program works on u32 values with MAX_KEY_VAL = 65536 = 2^16, so     *)
(* that the product of two primes below MAX_KEY_VAL fits a u32 (2^32).     *)
(* TLC cannot enumerate that range; the model keeps the same relation      *)
(* between the two (U32 = MAX_KEY_VAL * MAX_KEY_VAL) at a smaller scale.   *)
(***************************************************************************)
EXTENDS Integers, Sequences, FiniteSets, TLC

VARIABLES
    pc,       \* position of the running operation
    cand,     \* the loop-local candidate of a rejection-sampling loop
    p, q,     \* generate_key_pair: the two primes
    m, n,     \* generate_key_pair: modulus and Carmichael totient
    e, d,     \* generate_key_pair: chosen and derived exponent
    key,      \* the triple returned by generate_key_pair
    priv,     \* print_keys: the private key line (modulus, exponent)
    pub,      \* print_keys: the public key line (modulus, exponent)
    msg,      \* the message of sign / verify
    sig,      \* the value returned by sign_message
    vsig,     \* the signature argument given to verify_signature
    verdict,  \* the value returned by verify_signature
    args,     \* inputs of a helper function called on its own
    ret,      \* the value that helper returned
    draws,    \* values drawn so far from the ThreadRng of this run of main
    blockchain,          \* verify_blockchain: the blocks iterated so far
    balances,            \* verify_blockchain: the HashMap<Address, Amount>
    expected_prev_hash,  \* verify_blockchain: the hash the next block must name
    outcome,             \* verify_blockchain: running, or what it returned
    build,               \* overflow checks on (debug) or off (release)
    data,                \* bill_hash: the bytes of the string to hash
    blocks,              \* bill_hash: the blocks the for loop has still to take
    cv,                  \* bill_hash: the compress value
    compressed           \* bill_hash: the blocks compress was called on, in order

chainVars == <<blockchain, balances, expected_prev_hash, outcome, build>>

hashVars == <<data, blocks, cv, compressed>>

vars == <<pc, cand, p, q, m, n, e, d, key, priv, pub, msg, sig, vsig, verdict, args, ret,
          draws, chainVars, hashVars>>

(***************************************************************************)
(* Bounds and scaled machine parameters                                    *)
(***************************************************************************)

\* main.rs:106 has 65536; scaled down so that the range can be enumerated.
MAX_KEY_VAL == 13

\* The number of values of a u16 (2^16 = 65536 in the source): the width
\* the comment of get_random_prime speaks of.
U16 == MAX_KEY_VAL

\* The number of values of a u32, 2^32 = 65536 * 65536 in the source.
U32 == MAX_KEY_VAL * MAX_KEY_VAL

\* The value that stands for a Rust panic (no u32 is negative).
PANIC == 0 - 1

\* "No value yet" of a variable that holds a number.
NONE == 0 - 2

\* Largest argument tried when mmi is called on its own.
MaxInv == 40

\* Largest exponent tried when raise_power_modulo is called on its own.
MaxExp == 9

\* Largest value of each argument tried when verify_signature is called on
\* its own.
MaxArg == 5

\* Largest argument tried when is_prime is called on its own (the source
\* tests it up to 1223). is_prime is modelled at full width: for n below
\* 65536 the product i * i stays far below 2^32.
MaxPrimeArg == 1300

\* The draws of one generation are counted up to this number; further draws
\* leave the count where it is (the loops themselves have no cap).
MaxDraws == 6

\* A message is represented by the 64-bit value DefaultHasher::finish yields
\* for it; values at and above U32 make the truncation to u32 visible.
Msgs == 0 .. (U32 + 2 * MAX_KEY_VAL - 1)

(***************************************************************************)
(* Helper functions                                                        *)
(***************************************************************************)

\* is_prime without the test for multiples of 3
is_prime_no3(x) ==
    IF x <= 3 THEN x > 1
    ELSE IF x % 2 = 0 THEN FALSE
    ELSE \A i \in 5 .. x : (i % 6 = 5 /\ i * i <= x) => (x % i # 0 /\ x % (i + 2) # 0)

RECURSIVE is_prime_loop(_, _)
is_prime_loop(x, i) ==
    IF i * i <= x
    THEN IF x % i = 0 \/ x % (i + 2) = 0
         THEN FALSE
         ELSE is_prime_loop(x, i + 6)
    ELSE TRUE

is_prime(x) ==
    IF x <= 3 THEN x > 1
    ELSE IF x % 2 = 0 \/ x % 3 = 0 THEN FALSE
    ELSE is_prime_loop(x, 5)

\* num::integer::gcd
RECURSIVE gcd(_, _)
gcd(x, y) == IF y = 0 THEN x ELSE gcd(y, x % y)

\* num::integer::lcm on u32: 0 for (0, 0), else x * (y / gcd); a product
\* that does not fit a u32 is reported as PANIC (the overflow check of a
\* debug build)
lcm(x, y) ==
    IF x = 0 /\ y = 0 THEN 0
    ELSE LET r == x * (y \div gcd(x, y))
         IN  IF r >= U32 THEN PANIC ELSE r

is_coprime(x, y) == gcd(x, y) = 1

carmichael_totient(x, y) == lcm(x - 1, y - 1)

\* The first loop of mmi: mn = (mn0, mn1), xy = (xy0, xy1); yields xy.0
RECURSIVE mmi_euclid(_, _, _, _)
mmi_euclid(mn0, mn1, xy0, xy1) ==
    IF mn1 # 0
    THEN mmi_euclid(mn1, mn0 % mn1, xy1, xy0 - (mn0 \div mn1) * xy1)
    ELSE xy0

\* mmi without its second loop: the coefficient is left as it is
mmi_normalise_skipped(x, mm) == x

\* The second loop of mmi: while xy.0 < 0 { xy.0 += m }
RECURSIVE mmi_normalise(_, _)
mmi_normalise(x, mm) == IF x < 0 THEN mmi_normalise(x + mm, mm) ELSE x

mmi(a, mm) ==
    LET x == mmi_normalise(mmi_euclid(mm, a, 0, 1), mm)
    IN  IF x > 0 THEN x % U32 ELSE PANIC

\* get_hash: the 64-bit hasher output, cast to u32
get_hash(t) == t % U32

\* modpow with every product wrapped to u32 before it is reduced
RECURSIVE modpow_u32(_, _, _)
modpow_u32(b, y, z) ==
    IF y = 0 THEN 1 % z
    ELSE LET h == modpow_u32(((b * b) % U32) % z, y \div 2, z)
         IN  IF y % 2 = 1 THEN ((h * b) % U32) % z ELSE h

\* modpow returning 1 for a zero exponent without reducing it modulo z
RECURSIVE modpow_one(_, _, _)
modpow_one(b, y, z) ==
    IF y = 0 THEN 1
    ELSE LET h == modpow_one((b * b) % z, y \div 2, z)
         IN  IF y % 2 = 1 THEN (h * b) % z ELSE h

\* BigUint::modpow by squaring, every product reduced before the next one;
\* b is already reduced modulo z
RECURSIVE modpow(_, _, _)
modpow(b, y, z) ==
    IF y = 0 THEN 1 % z
    ELSE LET h == modpow((b * b) % z, y \div 2, z)
         IN  IF y % 2 = 1 THEN (h * b) % z ELSE h

\* BigUint::to_u32: None (here PANIC, through unwrap) when it does not fit
to_u32_unwrap(r) == IF r < U32 THEN r ELSE PANIC

raise_power_modulo(x, y, z) ==
    IF z = 0 THEN PANIC   \* modpow: "attempt to calculate with zero modulus"
    ELSE to_u32_unwrap(modpow(x % z, y, z))

\* "ok" when check_vals returns, "panic" when it panics (BigUint % 0 panics)
check_vals(dd, ee, nn) ==
    IF nn = 0 THEN "panic"
    ELSE IF (dd * ee) % nn # 1 THEN "panic" ELSE "ok"

\* compute_public_exponent with the arguments of mmi exchanged
compute_public_exponent_swapped(ee, nn) == mmi(nn, ee)

compute_public_exponent(ee, nn) == mmi(ee, nn)

\* u32 * u32 in u32: PANIC when the product does not fit (a debug build
\* panics, a release build wraps: in both the value is not the product)
mul_u32(x, y) == IF x * y >= U32 THEN PANIC ELSE x * y

\* A gen_range that hands out a value without advancing the generator
gen_range_peek(k) == k

\* rng.gen_range consumes one value of the generator (counted up to MaxDraws)
gen_range_count(k) == IF k < MaxDraws THEN k + 1 ELSE k

\* print_keys with the two exponents exchanged
print_keys_swapped(nn, dd, ee) == [private |-> <<nn, ee>>, public |-> <<nn, dd>>]

\* print_keys(n, d, e): "Private key: n, d" and "Public key: n, e"
print_keys(nn, dd, ee) == [private |-> <<nn, dd>>, public |-> <<nn, ee>>]

sign_message(t, priv_key_mod, priv_key_exp) ==
    LET h == get_hash(t)
    IN  raise_power_modulo(h, priv_key_exp, priv_key_mod)

\* verify_signature comparing with the hash itself, not the hash modulo m
verify_signature_unreduced(t, s, pub_key_mod, pub_key_exp) ==
    LET h == get_hash(t)
        r == raise_power_modulo(s, pub_key_exp, pub_key_mod)
    IN  IF r = PANIC \/ pub_key_mod = 0 THEN "panic"
        ELSE IF r = h THEN "true" ELSE "false"

\* "true" / "false", or "panic" when the function does not return
verify_signature(t, s, pub_key_mod, pub_key_exp) ==
    LET h == get_hash(t)
        r == raise_power_modulo(s, pub_key_exp, pub_key_mod)
    IN  IF r = PANIC \/ pub_key_mod = 0 THEN "panic"
        ELSE IF r = h % pub_key_mod THEN "true" ELSE "false"

(***************************************************************************)
(* The program: generate, then sign and verify with the generated keys     *)
(***************************************************************************)

\* No run of verify_blockchain
NoChain ==
    /\ blockchain = <<>> /\ balances = <<>> /\ expected_prev_hash = NONE
    /\ outcome = [kind |-> "none", line |-> NONE, check |-> "none"]
    /\ build = "none"

\* No run of bill_hash
NoHash == data = <<>> /\ blocks = <<>> /\ cv = <<>> /\ compressed = <<>>

Init ==
    /\ pc = "start"
    /\ cand = NONE /\ p = NONE /\ q = NONE /\ m = NONE /\ n = NONE
    /\ e = NONE /\ d = NONE
    /\ key = <<>> /\ priv = <<>> /\ pub = <<>>
    /\ msg = NONE /\ sig = NONE /\ vsig = NONE /\ verdict = "none"
    /\ args = <<>> /\ ret = NONE
    /\ draws = NONE
    /\ NoChain
    /\ NoHash

\* main, Function::Generate: rand::thread_rng(), then enter
\* generate_key_pair -> generate_two_primes
Generate ==
    /\ pc = "start"
    /\ pc' = "prime_p"
    /\ draws' = 0
    /\ UNCHANGED <<cand, p, q, m, n, e, d, key, priv, pub, msg, sig, vsig, verdict, args, ret, chainVars, hashVars>>

\* One iteration of the loop of get_random_prime, called for p
GetRandomPrimeP ==
    /\ pc = "prime_p"
    /\ draws' = gen_range_count(draws)
    /\ \E r \in 3 .. (MAX_KEY_VAL - 1) :
         /\ cand' = r
         /\ IF is_prime(r)
            THEN p' = r /\ pc' = "prime_q"
            ELSE p' = p /\ pc' = "prime_p"
    /\ UNCHANGED <<q, m, n, e, d, key, priv, pub, msg, sig, vsig, verdict, args, ret, chainVars, hashVars>>

\* One iteration of the loop of get_random_prime, called for q
GetRandomPrimeQ ==
    /\ pc = "prime_q"
    /\ draws' = gen_range_count(draws)
    /\ \E r \in 3 .. (MAX_KEY_VAL - 1) :
         /\ cand' = r
         /\ IF is_prime(r)
            THEN q' = r /\ pc' = "distinct"
            ELSE q' = q /\ pc' = "prime_q"
    /\ UNCHANGED <<p, m, n, e, d, key, priv, pub, msg, sig, vsig, verdict, args, ret, chainVars, hashVars>>

\* generate_two_primes without the test that p and q differ
GenerateTwoPrimes_any ==
    /\ pc = "distinct"
    /\ pc' = "modulus"
    /\ UNCHANGED <<cand, p, q, m, n, e, d, key, priv, pub, msg, sig, vsig, verdict, args, ret, draws, chainVars, hashVars>>

\* generate_two_primes: if p != q break, else draw both again
GenerateTwoPrimes ==
    /\ pc = "distinct"
    /\ pc' = IF p # q THEN "modulus" ELSE "prime_p"
    /\ UNCHANGED <<cand, p, q, m, n, e, d, key, priv, pub, msg, sig, vsig, verdict, args, ret, draws, chainVars, hashVars>>

\* generate_key_pair steps 2 and 3: m = p * q (u32), n = carmichael_totient
ComputeModulus ==
    /\ pc = "modulus"
    /\ LET mm == mul_u32(p, q)
           nn == carmichael_totient(p, q)
       IN  IF mm = PANIC \/ nn = PANIC
           THEN pc' = "panic" /\ m' = m /\ n' = n
           ELSE pc' = "exponent" /\ m' = mm /\ n' = nn
    /\ UNCHANGED <<cand, p, q, e, d, key, priv, pub, msg, sig, vsig, verdict, args, ret, draws, chainVars, hashVars>>

\* choose_private_exponent with an iteration cap: after MaxDraws draws the
\* candidate is returned whether or not it is coprime with c
ChoosePrivateExponent_capped ==
    /\ pc = "exponent"
    /\ draws' = gen_range_count(draws)
    /\ \E r \in 2 .. (n - 1) :
         /\ cand' = r
         /\ IF is_coprime(r, n) \/ draws = MaxDraws
            THEN e' = r /\ pc' = "inverse"
            ELSE e' = e /\ pc' = "exponent"
    /\ UNCHANGED <<p, q, m, n, d, key, priv, pub, msg, sig, vsig, verdict, args, ret, chainVars, hashVars>>

\* choose_private_exponent drawing from [1, c) instead of [2, c)
ChoosePrivateExponent_from1 ==
    /\ pc = "exponent"
    /\ draws' = gen_range_count(draws)
    /\ \E r \in 1 .. (n - 1) :
         /\ cand' = r
         /\ IF is_coprime(r, n)
            THEN e' = r /\ pc' = "inverse"
            ELSE e' = e /\ pc' = "exponent"
    /\ UNCHANGED <<p, q, m, n, d, key, priv, pub, msg, sig, vsig, verdict, args, ret, chainVars, hashVars>>

\* One iteration of the loop of choose_private_exponent(n)
ChoosePrivateExponent ==
    /\ pc = "exponent"
    /\ draws' = gen_range_count(draws)
    /\ \E r \in 2 .. (n - 1) :
         /\ cand' = r
         /\ IF is_coprime(r, n)
            THEN e' = r /\ pc' = "inverse"
            ELSE e' = e /\ pc' = "exponent"
    /\ UNCHANGED <<p, q, m, n, d, key, priv, pub, msg, sig, vsig, verdict, args, ret, chainVars, hashVars>>

\* generate_key_pair step 5: d = compute_public_exponent(e, n)
ComputePublicExponent ==
    /\ pc = "inverse"
    /\ LET dd == compute_public_exponent(e, n)
       IN  IF dd = PANIC
           THEN pc' = "panic" /\ d' = d
           ELSE pc' = "return" /\ d' = dd
    /\ UNCHANGED <<cand, p, q, m, n, e, key, priv, pub, msg, sig, vsig, verdict, args, ret, draws, chainVars, hashVars>>

\* generate_key_pair returns (m, e, d); main binds it as (m, d, e) and calls
\* print_keys(m, d, e); the locals and the generator go out of scope
ReturnKeyPair ==
    /\ pc = "return"
    /\ LET r == <<m, e, d>>
           printed == print_keys(r[1], r[2], r[3])
       IN  /\ key' = r
           /\ priv' = printed.private
           /\ pub' = printed.public
    /\ draws' = NONE
    /\ cand' = NONE /\ p' = NONE /\ q' = NONE /\ m' = NONE /\ n' = NONE
    /\ e' = NONE /\ d' = NONE
    /\ pc' = "ready"
    /\ UNCHANGED <<msg, sig, vsig, verdict, args, ret, chainVars, hashVars>>

\* main, Function::Sign with the private key that was printed
Sign ==
    /\ pc = "ready"
    /\ \E t \in Msgs :
         /\ msg' = t
         /\ sig' = sign_message(t, priv[1], priv[2])
    /\ pc' = "signed"
    /\ UNCHANGED <<cand, p, q, m, n, e, d, key, priv, pub, vsig, verdict, args, ret, draws, chainVars, hashVars>>

\* main, Function::Verify with the public key that was printed and any
\* 32-bit signature argument
Verify ==
    /\ pc = "signed"
    /\ \E s \in 0 .. (U32 - 1) :
         /\ vsig' = s
         /\ verdict' = verify_signature(msg, s, pub[1], pub[2])
    /\ pc' = "verified"
    /\ UNCHANGED <<cand, p, q, m, n, e, d, key, priv, pub, msg, sig, args, ret, draws, chainVars, hashVars>>

Next ==
    \/ Generate
    \/ GetRandomPrimeP
    \/ GetRandomPrimeQ
    \/ GenerateTwoPrimes
    \/ ComputeModulus
    \/ ChoosePrivateExponent
    \/ ComputePublicExponent
    \/ ReturnKeyPair
    \/ Sign
    \/ Verify

Spec == Init /\ [][Next]_vars

\* One iteration of the loop of get_random_prime, from either call
GetRandomPrime == GetRandomPrimeP \/ GetRandomPrimeQ

\* main, Function::Generate alone: the process ends when the keys are printed
NextGen ==
    \/ Generate
    \/ GetRandomPrimeP
    \/ GetRandomPrimeQ
    \/ GenerateTwoPrimes
    \/ ComputeModulus
    \/ ChoosePrivateExponent
    \/ ComputePublicExponent
    \/ ReturnKeyPair

\* The process keeps executing: a step that can be taken is taken
SpecGen == Init /\ [][NextGen]_vars /\ WF_vars(NextGen)

(***************************************************************************)
(* Helper functions called on their own, on any arguments                  *)
(***************************************************************************)

NoProgram ==
    /\ cand = NONE /\ p = NONE /\ q = NONE /\ m = NONE /\ n = NONE
    /\ e = NONE /\ d = NONE
    /\ key = <<>> /\ priv = <<>> /\ pub = <<>>
    /\ msg = NONE /\ sig = NONE /\ vsig = NONE /\ verdict = "none"
    /\ ret = NONE
    /\ draws = NONE
    /\ NoChain
    /\ NoHash

\* mmi(a, m) on u32 arguments
InitMmi ==
    /\ pc = "mmi_call"
    /\ args \in (0 .. MaxInv) \X (0 .. MaxInv)
    /\ NoProgram

CallMmi ==
    /\ pc = "mmi_call"
    /\ ret' = mmi(args[1], args[2])
    /\ pc' = "mmi_done"
    /\ UNCHANGED <<cand, p, q, m, n, e, d, key, priv, pub, msg, sig, vsig, verdict, args, draws, chainVars, hashVars>>

SpecMmi == InitMmi /\ [][CallMmi]_vars

\* raise_power_modulo(x, y, z) on u32 arguments
InitPow ==
    /\ pc = "pow_call"
    /\ args \in (0 .. (U32 - 1)) \X (0 .. MaxExp) \X (0 .. (U32 - 1))
    /\ NoProgram

CallRaisePowerModulo ==
    /\ pc = "pow_call"
    /\ ret' = raise_power_modulo(args[1], args[2], args[3])
    /\ pc' = "pow_done"
    /\ UNCHANGED <<cand, p, q, m, n, e, d, key, priv, pub, msg, sig, vsig, verdict, args, draws, chainVars, hashVars>>

SpecPow == InitPow /\ [][CallRaisePowerModulo]_vars

\* verify_signature(msg, sig, pub_key_mod, pub_key_exp) on any arguments
InitVerify ==
    /\ pc = "verify_call"
    /\ args \in (0 .. MaxArg) \X (0 .. MaxArg) \X (0 .. MaxArg) \X (0 .. MaxArg)
    /\ NoProgram

CallVerifySignature ==
    /\ pc = "verify_call"
    /\ verdict' = verify_signature(args[1], args[2], args[3], args[4])
    /\ pc' = "verify_done"
    /\ UNCHANGED <<cand, p, q, m, n, e, d, key, priv, pub, msg, sig, vsig, args, ret, draws, chainVars, hashVars>>

SpecVerify == InitVerify /\ [][CallVerifySignature]_vars

\* generate_key_pair steps 2 and 3 on any p, q of the range of the primes
InitTotient ==
    /\ pc = "totient_call"
    /\ args \in (3 .. (MAX_KEY_VAL - 1)) \X (3 .. (MAX_KEY_VAL - 1))
    /\ NoProgram

CallModulusTotient ==
    /\ pc = "totient_call"
    /\ ret' = <<mul_u32(args[1], args[2]), carmichael_totient(args[1], args[2])>>
    /\ pc' = "totient_done"
    /\ UNCHANGED <<cand, p, q, m, n, e, d, key, priv, pub, msg, sig, vsig, verdict, args, draws, chainVars, hashVars>>

SpecTotient == InitTotient /\ [][CallModulusTotient]_vars

\* sign_message(msg, priv_key_mod, priv_key_exp) on any arguments
InitSign ==
    /\ pc = "sign_call"
    /\ args \in Msgs \X (0 .. (U32 - 1)) \X (0 .. MaxArg)
    /\ NoProgram

CallSignMessage ==
    /\ pc = "sign_call"
    /\ ret' = sign_message(args[1], args[2], args[3])
    /\ pc' = "sign_done"
    /\ UNCHANGED <<cand, p, q, m, n, e, d, key, priv, pub, msg, sig, vsig, verdict, args, draws, chainVars, hashVars>>

SpecSign == InitSign /\ [][CallSignMessage]_vars

\* is_prime(n), one loop iteration at a time; cand holds the loop variable i
InitPrime ==
    /\ pc = "prime_call"
    /\ args \in {<<x>> : x \in 0 .. MaxPrimeArg}
    /\ NoProgram

\* is_prime up to the loop: the two early returns, or i = 5
IsPrimeEnter ==
    /\ pc = "prime_call"
    /\ LET x == args[1]
       IN  IF x <= 3
           THEN /\ verdict' = (IF x > 1 THEN "true" ELSE "false")
                /\ pc' = "prime_done" /\ cand' = cand
           ELSE IF x % 2 = 0 \/ x % 3 = 0
           THEN verdict' = "false" /\ pc' = "prime_done" /\ cand' = cand
           ELSE verdict' = verdict /\ pc' = "prime_loop" /\ cand' = 5
    /\ UNCHANGED <<p, q, m, n, e, d, key, priv, pub, msg, sig, vsig, args, ret, draws, chainVars, hashVars>>

\* the loop of is_prime testing i only, not i + 2
IsPrimeLoop_onlyI ==
    /\ pc = "prime_loop"
    /\ LET x == args[1]
           i == cand
       IN  IF i * i <= x
           THEN IF x % i = 0
                THEN verdict' = "false" /\ pc' = "prime_done" /\ cand' = cand
                ELSE verdict' = verdict /\ pc' = "prime_loop" /\ cand' = i + 6
           ELSE verdict' = "true" /\ pc' = "prime_done" /\ cand' = cand
    /\ UNCHANGED <<p, q, m, n, e, d, key, priv, pub, msg, sig, vsig, args, ret, draws, chainVars, hashVars>>

\* One test of the loop condition of is_prime, and the body if it holds
IsPrimeLoop ==
    /\ pc = "prime_loop"
    /\ LET x == args[1]
           i == cand
       IN  IF i * i <= x
           THEN IF x % i = 0 \/ x % (i + 2) = 0
                THEN verdict' = "false" /\ pc' = "prime_done" /\ cand' = cand
                ELSE verdict' = verdict /\ pc' = "prime_loop" /\ cand' = i + 6
           ELSE verdict' = "true" /\ pc' = "prime_done" /\ cand' = cand
    /\ UNCHANGED <<p, q, m, n, e, d, key, priv, pub, msg, sig, vsig, args, ret, draws, chainVars, hashVars>>

NextPrime == IsPrimeEnter \/ IsPrimeLoop

\* The function runs on its own thread of control: a step that can be taken
\* is taken.
SpecPrime == InitPrime /\ [][NextPrime]_vars /\ WF_vars(NextPrime)

(***************************************************************************)
(* 4_basic_blockchain: verify_blockchain, one block of the vector per step *)
(***************************************************************************)

\* u64 holds 0 .. U64 - 1. The source has 2^64; the checks take it as a bound.
U64 == 8

\* Addresses 0 .. MaxAddr appear in the blocks
MaxAddr == 2

\* Amounts 0 .. MaxAmount, and the largest u64, appear in the blocks
MaxAmount == 2

\* The vector has at most MaxChain blocks
MaxChain == 3

Addresses == 0 .. MaxAddr

Amounts == (0 .. MaxAmount) \cup {U64 - 1}

Digests == 0 .. (U64 - 1)

\* struct Block, any value read_file can build from a line
Blocks == [to_addr : Addresses, from_addr : Addresses, amount : Amounts, prev_hash : Digests]

\* HashMap::new(): no address has an entry (NONE marks no entry)
EmptyBalances == [a \in Addresses |-> NONE]

\* get_hash of a Block: DefaultHasher over the derived Hash, which feeds
\* to_addr, from_addr, amount, prev_hash in this order; a fixed function of
\* the four fields into u64
get_hash_block(b) ==
    (1 + b.to_addr + 3 * b.from_addr + 5 * b.amount + 7 * b.prev_hash) % U64

\* u64 + u64: a debug build panics on overflow, a release build wraps
add_u64(x, y, bld) ==
    IF x + y < U64 THEN x + y
    ELSE IF bld = "debug" THEN PANIC ELSE (x + y) % U64

\* u64 - u64: a debug build panics on underflow, a release build wraps
sub_u64(x, y, bld) ==
    IF x >= y THEN x - y
    ELSE IF bld = "debug" THEN PANIC ELSE x - y + U64

\* balances.get(&a).cloned().unwrap_or(0)
unwrap_or_0(bal, a) == IF bal[a] = NONE THEN 0 ELSE bal[a]

\* What one iteration of the loop hands on: kind "next" goes on with the
\* next block, "err" is return Err(..), "panic" an arithmetic panic
Handed(kind, j, check, bal, exp) ==
    [kind |-> kind, line |-> j, check |-> check,
     balances |-> bal, expected_prev_hash |-> exp]

\* TODO 5 of the loop body: the balance update of an accepted block
update_balances(bal, b, j, exp, bld) ==
    LET old_balance_from == unwrap_or_0(bal, b.from_addr)
        old_balance_to == unwrap_or_0(bal, b.to_addr)
        new_from_amount == sub_u64(old_balance_from, b.amount, bld)
        new_to_amount == add_u64(old_balance_to, b.amount, bld)
        bal1 == IF b.from_addr # 0
                THEN [bal EXCEPT ![b.from_addr] = new_from_amount]
                ELSE bal
    IN  IF b.from_addr # 0 /\ new_from_amount = PANIC
        THEN Handed("panic", j, "subtract", <<>>, exp)
        ELSE IF new_to_amount = PANIC
        THEN Handed("panic", j, "add", <<>>, exp)
        ELSE Handed("next", j, "none", [bal1 EXCEPT ![b.to_addr] = new_to_amount], exp)

\* A funds check that reads a missing entry as a balance of 0
funds_check_absent_as_zero(bal, b) ==
    IF b.from_addr # 0 /\ unwrap_or_0(bal, b.from_addr) < b.amount
    THEN "only_has"
    ELSE "none"

\* TODO 1 of the loop body: the error the funds check returns, if any
funds_check(bal, b) ==
    IF b.from_addr # 0
    THEN IF bal[b.from_addr] # NONE
         THEN IF bal[b.from_addr] < b.amount THEN "only_has" ELSE "none"
         ELSE "has_0"
    ELSE "none"

\* The loop body without the test of to_addr
to_addr_check_skipped(b) == FALSE

\* TODO 2 of the loop body: sending to address 0x0 is an error
to_addr_check(b) == b.to_addr = 0

\* The loop body without the test of prev_hash
prev_hash_check_skipped(b, exp) == FALSE

\* TODO 3 of the loop body: prev_hash differs from the expected one
prev_hash_check(b, exp) == b.prev_hash # exp

\* The body of the for loop for block b at index j
verify_block(bal, exp, b, j, bld) ==
    IF funds_check(bal, b) # "none"
    THEN Handed("err", j, funds_check(bal, b), <<>>, exp)
    ELSE IF to_addr_check(b)
    THEN Handed("err", j, "to_0x0", <<>>, exp)
    ELSE IF prev_hash_check(b, exp)
    THEN Handed("err", j, "prev_hash", <<>>, exp)
    ELSE update_balances(bal, b, j, get_hash_block(b), bld)

\* The for loop from index j on, then Ok(balances)
RECURSIVE verify_loop(_, _, _, _, _)
verify_loop(bc, j, bal, exp, bld) ==
    IF j >= Len(bc)
    THEN Handed("ok", NONE, "none", bal, exp)
    ELSE LET r == verify_block(bal, exp, bc[j + 1], j, bld)
         IN  IF r.kind = "next"
             THEN verify_loop(bc, j + 1, r.balances, r.expected_prev_hash, bld)
             ELSE r

\* verify_blockchain(&blockchain) as a whole
verify_blockchain(bc, bld) == verify_loop(bc, 0, EmptyBalances, 0, bld)

\* read_blockchain calls verify_blockchain: balances and expected_prev_hash
\* are initialised, no block has been looked at
InitChain ==
    /\ pc = "chain_loop"
    /\ cand = NONE /\ p = NONE /\ q = NONE /\ m = NONE /\ n = NONE
    /\ e = NONE /\ d = NONE
    /\ key = <<>> /\ priv = <<>> /\ pub = <<>>
    /\ msg = NONE /\ sig = NONE /\ vsig = NONE /\ verdict = "none"
    /\ args = <<>> /\ ret = NONE
    /\ draws = NONE
    /\ blockchain = <<>>
    /\ balances = EmptyBalances
    /\ expected_prev_hash = 0
    /\ outcome = [kind |-> "none", line |-> NONE, check |-> "none"]
    /\ build \in {"debug", "release"}
    /\ NoHash

\* One iteration of the for loop: the next block of the vector is any block
VerifyBlock ==
    /\ pc = "chain_loop"
    /\ Len(blockchain) < MaxChain
    /\ \E b \in Blocks :
         LET r == verify_block(balances, expected_prev_hash, b, Len(blockchain), build)
         IN  /\ blockchain' = Append(blockchain, b)
             /\ balances' = r.balances
             /\ expected_prev_hash' = r.expected_prev_hash
             /\ IF r.kind = "next"
                THEN pc' = "chain_loop" /\ outcome' = outcome
                ELSE /\ pc' = "chain_done"
                     /\ outcome' = [kind |-> r.kind, line |-> r.line, check |-> r.check]
    /\ UNCHANGED <<cand, p, q, m, n, e, d, key, priv, pub, msg, sig, vsig, verdict, args, ret, draws, build, hashVars>>

\* The vector is exhausted: Ok(balances)
VerifyOk ==
    /\ pc = "chain_loop"
    /\ pc' = "chain_done"
    /\ outcome' = [kind |-> "ok", line |-> NONE, check |-> "none"]
    /\ UNCHANGED <<cand, p, q, m, n, e, d, key, priv, pub, msg, sig, vsig, verdict, args, ret, draws,
                   blockchain, balances, expected_prev_hash, build, hashVars>>

NextChain == VerifyBlock \/ VerifyOk

SpecChain == InitChain /\ [][NextChain]_vars

(***************************************************************************)
(* 3_hashing: strengthen, split, compress, finalize, bill_hash             *)
(***************************************************************************)

\* const BLOCK_SIZE: usize = 8
BLOCK_SIZE == 8

\* The byte vectors handed to the functions have at most MaxLen bytes
MaxLen == 17

\* The byte vectors handed to strengthen and split: of every length up to
\* MaxLen, constant or rising, starting at a low, a middle or a high byte
ByteSeeds == {0, 1, 97, 128, 255}

ByteStrides == {0, 1, 7}

sample_bytes(l, a, b) == [i \in 1 .. l |-> (b + a * (i - 1)) % 256]

ByteVectors ==
    {sample_bytes(l, a, b) : l \in 0 .. MaxLen, a \in ByteStrides, b \in ByteSeeds}

\* strengthen: for _j in 0..n { to_return.push(0) }
RECURSIVE push_zeros(_, _)
push_zeros(to_return, k) ==
    IF k = 0 THEN to_return ELSE push_zeros(Append(to_return, 0), k - 1)

\* strengthen that pads whenever the length is a multiple of BLOCK_SIZE
strengthen_pads_full_blocks(v) == push_zeros(v, BLOCK_SIZE - (Len(v) % BLOCK_SIZE))

\* strengthen(data)
strengthen(v) ==
    LET rem == Len(v) % BLOCK_SIZE
    IN  IF rem = 0 /\ Len(v) > 0
        THEN v
        ELSE push_zeros(v, BLOCK_SIZE - rem)

\* split: the inner loop, which pushes BLOCK_SIZE bytes from counter on
RECURSIVE split_new_block(_, _, _, _)
split_new_block(to_split, counter, k, new_block) ==
    IF k = BLOCK_SIZE
    THEN new_block
    ELSE split_new_block(to_split, counter + 1, k + 1,
                         Append(new_block, to_split[counter + 1]))

\* split: the outer loop over num_blocks blocks
RECURSIVE split_loop(_, _, _, _, _)
split_loop(to_split, num_blocks, j, counter, to_return) ==
    IF j = num_blocks
    THEN to_return
    ELSE split_loop(to_split, num_blocks, j + 1, counter + BLOCK_SIZE,
                    Append(to_return, split_new_block(to_split, counter, 0, <<>>)))

\* split(data)
split(v) ==
    LET to_split == strengthen(v)
        num_blocks == Len(to_split) \div BLOCK_SIZE
    IN  split_loop(to_split, num_blocks, 0, 0, <<>>)

\* strengthen and split called on any byte vector
InitPad ==
    /\ pc = "strengthen_call"
    /\ cand = NONE /\ p = NONE /\ q = NONE /\ m = NONE /\ n = NONE
    /\ e = NONE /\ d = NONE
    /\ key = <<>> /\ priv = <<>> /\ pub = <<>>
    /\ msg = NONE /\ sig = NONE /\ vsig = NONE /\ verdict = "none"
    /\ args = <<>> /\ ret = NONE
    /\ draws = NONE
    /\ NoChain
    /\ data \in ByteVectors
    /\ blocks = <<>> /\ cv = <<>> /\ compressed = <<>>

CallStrengthen ==
    /\ pc = "strengthen_call"
    /\ ret' = strengthen(data)
    /\ pc' = "split_call"
    /\ UNCHANGED <<cand, p, q, m, n, e, d, key, priv, pub, msg, sig, vsig, verdict, args, draws,
                   chainVars, data, blocks, cv, compressed>>

CallSplit ==
    /\ pc = "split_call"
    /\ blocks' = split(data)
    /\ pc' = "split_done"
    /\ UNCHANGED <<cand, p, q, m, n, e, d, key, priv, pub, msg, sig, vsig, verdict, args, ret, draws,
                   chainVars, data, cv, compressed>>

NextPad == CallStrengthen \/ CallSplit

SpecPad == InitPad /\ [][NextPad]_vars

\* A u64 is written as its eight bytes, most significant first (the digits
\* of the number in base 256): the integers of the checker are narrower.
\* const INITIALIZATION_VECTOR: u64 = 0x0123_4567_89AB_CDEF
INITIALIZATION_VECTOR == <<1, 35, 69, 103, 137, 171, 205, 239>>

\* The bytes
Bytes == 0 .. 255

\* Bit i of byte x
bit(x, i) == (x \div (2 ^ i)) % 2

\* u8 ^ u8, bit by bit
xor_bits(x, y) ==
      ((bit(x, 0) + bit(y, 0)) % 2)
    + ((bit(x, 1) + bit(y, 1)) % 2) * 2
    + ((bit(x, 2) + bit(y, 2)) % 2) * 4
    + ((bit(x, 3) + bit(y, 3)) % 2) * 8
    + ((bit(x, 4) + bit(y, 4)) % 2) * 16
    + ((bit(x, 5) + bit(y, 5)) % 2) * 32
    + ((bit(x, 6) + bit(y, 6)) % 2) * 64
    + ((bit(x, 7) + bit(y, 7)) % 2) * 128

\* u8 ^ u8 as a table, computed once
xor_table == [x \in Bytes |-> [y \in Bytes |-> xor_bits(x, y)]]

\* u8 ^ u8
xor(x, y) == xor_table[x][y]

\* u8 << k for k < 8: the bits shifted out are lost
shl(x, k) == (x * (2 ^ k)) % 256

\* u8 >> k for k < 8
shr(x, k) == x \div (2 ^ k)

\* arr[k % BLOCK_SIZE] of a Rust array held as a sequence
at(arr, k) == arr[(k % BLOCK_SIZE) + 1]

\* twiddle: what arr[j] is XORed with
twiddle_with(arr, j) ==
    xor(shl(at(arr, j + 1), (j + 7) % BLOCK_SIZE),
    xor(shl(at(arr, j + 2), (j + 6) % BLOCK_SIZE),
    xor(shl(at(arr, j + 3), (j + 5) % BLOCK_SIZE),
    xor(shl(at(arr, j + 4), (j + 4) % BLOCK_SIZE),
    xor(shr(at(arr, j + 5), (j + 3) % BLOCK_SIZE),
    xor(shr(at(arr, j + 6), (j + 2) % BLOCK_SIZE),
        shr(at(arr, j + 7), (j + 1) % BLOCK_SIZE)))))))

\* twiddle: the loop over j, which updates arr in place
RECURSIVE twiddle_loop(_, _)
twiddle_loop(arr, j) ==
    IF j = BLOCK_SIZE
    THEN arr
    ELSE twiddle_loop([arr EXCEPT ![j + 1] = xor(arr[j + 1], twiddle_with(arr, j))], j + 1)

\* twiddle(&mut arr)
twiddle(arr) == twiddle_loop(arr, 0)

\* transform: for _j in 0..1024 { twiddle(&mut to_return) }
TWIDDLE_ROUNDS == 1024

\* The bytes of a sequence in the opposite order
RECURSIVE reverse(_)
reverse(v) == IF v = <<>> THEN <<>> ELSE Append(reverse(Tail(v)), Head(v))

\* u64::to_le_bytes: least significant byte first
to_le_bytes(x) == reverse(x)

\* u64::from_le_bytes
from_le_bytes(arr) == reverse(arr)

\* transform: the loop that twiddles k times (k calls in a row are k \div 2
\* calls followed by the other k - k \div 2; the array after the first half
\* is a value before the second half starts)
RECURSIVE twiddle_times(_, _)
twiddle_times(arr, k) ==
    IF k = 0 THEN arr
    ELSE IF k = 1 THEN twiddle(arr)
    ELSE CHOOSE r \in {twiddle_times(half, k - k \div 2) :
                          half \in {twiddle_times(arr, k \div 2)}} : TRUE

\* transform(cv, arr)
transform(c, arr) ==
    LET cv_arr == to_le_bytes(c)
        to_return == [j \in 1 .. BLOCK_SIZE |-> xor(arr[j], cv_arr[j])]
    IN  from_le_bytes(twiddle_times(to_return, TWIDDLE_ROUNDS))

\* compress: a[j] = new_data.pop().unwrap(), so a holds the block backwards
RECURSIVE pop_into(_, _)
pop_into(new_data, a) ==
    IF Len(a) = BLOCK_SIZE
    THEN a
    ELSE pop_into(SubSeq(new_data, 1, Len(new_data) - 1),
                  Append(a, new_data[Len(new_data)]))

\* compress(cv, data)
compress(c, block) == transform(c, pop_into(block, <<>>))

\* finalize(to_finalize): to_finalize ^ 0xFFFF_FFFF_FFFF_FFFF
finalize(x) == [j \in 1 .. BLOCK_SIZE |-> xor(x[j], 255)]

\* The strings handed to bill_hash, as their bytes: the strings of the
\* source's tests ("", "b", "bill", "hash") and runs of letters of every
\* length up to MaxLen
Strings ==
    {<<>>, <<98>>, <<98, 105, 108, 108>>, <<104, 97, 115, 104>>}
      \cup {sample_bytes(l, 1, b) : l \in 0 .. MaxLen, b \in {97, 98}}

\* main calls bill_hash(get_to_hash()) on any string
InitHash ==
    /\ pc = "hash_start"
    /\ cand = NONE /\ p = NONE /\ q = NONE /\ m = NONE /\ n = NONE
    /\ e = NONE /\ d = NONE
    /\ key = <<>> /\ priv = <<>> /\ pub = <<>>
    /\ msg = NONE /\ sig = NONE /\ vsig = NONE /\ verdict = "none"
    /\ args = <<>> /\ ret = NONE
    /\ draws = NONE
    /\ NoChain
    /\ data \in Strings
    /\ blocks = <<>> /\ cv = <<>> /\ compressed = <<>>

\* bill_hash: blocks = split(convert_string_to_u8s(to_hash)), where the
\* string is its bytes already; cv = INITIALIZATION_VECTOR
BillHashSplit ==
    /\ pc = "hash_start"
    /\ blocks' = split(data)
    /\ cv' = INITIALIZATION_VECTOR
    /\ pc' = "hash_loop"
    /\ UNCHANGED <<cand, p, q, m, n, e, d, key, priv, pub, msg, sig, vsig, verdict, args, ret, draws,
                   chainVars, data, compressed>>

\* The for loop with every block compressed from the initialization vector
BillHashCompress_fromIV ==
    /\ pc = "hash_loop"
    /\ blocks # <<>>
    /\ cv' = compress(INITIALIZATION_VECTOR, Head(blocks))
    /\ blocks' = Tail(blocks)
    /\ compressed' = Append(compressed, [cv |-> INITIALIZATION_VECTOR, block |-> Head(blocks)])
    /\ pc' = "hash_loop"
    /\ UNCHANGED <<cand, p, q, m, n, e, d, key, priv, pub, msg, sig, vsig, verdict, args, ret, draws,
                   chainVars, data>>

\* bill_hash: one iteration of for block in blocks { cv = compress(cv, block) };
\* compressed keeps the arguments of the call
BillHashCompress ==
    /\ pc = "hash_loop"
    /\ blocks # <<>>
    /\ cv' = compress(cv, Head(blocks))
    /\ blocks' = Tail(blocks)
    /\ compressed' = Append(compressed, [cv |-> cv, block |-> Head(blocks)])
    /\ pc' = "hash_loop"
    /\ UNCHANGED <<cand, p, q, m, n, e, d, key, priv, pub, msg, sig, vsig, verdict, args, ret, draws,
                   chainVars, data>>

\* bill_hash: the loop is over, finalize(cv) is returned
BillHashFinalize ==
    /\ pc = "hash_loop"
    /\ blocks = <<>>
    /\ ret' = finalize(cv)
    /\ pc' = "hash_done"
    /\ UNCHANGED <<cand, p, q, m, n, e, d, key, priv, pub, msg, sig, vsig, verdict, args, draws,
                   chainVars, hashVars>>

NextHash == BillHashSplit \/ BillHashCompress \/ BillHashFinalize

SpecHash == InitHash /\ [][NextHash]_vars

(***************************************************************************)
(* Reference definitions, from arithmetic rather than from the code        *)
(***************************************************************************)

Divides(k, x) == x % k = 0

\* x has exactly two positive divisors
IsPrimeRef(x) == x >= 0 /\ Cardinality({k \in 1 .. x : Divides(k, x)}) = 2

Max2(x, y) == IF x >= y THEN x ELSE y

\* the greatest common divisor, 0 for (0, 0)
GcdRef(x, y) ==
    IF x = 0 /\ y = 0 THEN 0
    ELSE CHOOSE g \in 1 .. Max2(x, y) :
           /\ Divides(g, x) /\ Divides(g, y)
           /\ \A k \in 1 .. Max2(x, y) : (Divides(k, x) /\ Divides(k, y)) => k <= g

\* the least common multiple of two positive numbers
LcmRef(x, y) ==
    CHOOSE l \in 1 .. (x * y) :
      /\ Divides(x, l) /\ Divides(y, l)
      /\ \A k \in 1 .. (x * y) : (Divides(x, k) /\ Divides(y, k)) => l <= k

\* x^y mod z by y multiplications, which is x^y mod z over the integers
RECURSIVE PowModRef(_, _, _)
PowModRef(x, y, z) == IF y = 0 THEN 1 % z ELSE (x * PowModRef(x, y - 1, z)) % z

\* the largest power computed exactly
PowCap == 2 ^ 30

\* x^y itself, or PANIC when it is above PowCap
RECURSIVE PowRef(_, _)
PowRef(x, y) ==
    IF y = 0 THEN 1
    ELSE LET r == PowRef(x, y - 1)
         IN  IF r = PANIC THEN PANIC
             ELSE IF x > 0 /\ r > PowCap \div x THEN PANIC
             ELSE r * x

(***************************************************************************)
(* Claims                                                                  *)
(***************************************************************************)

\* C1: Round-trip. For every triple (m, e, d) returned by generate_key_pair
\* and every 32-bit digest h (here the digest of the message in hand, which
\* ranges over all of them), raising h to e and then to d modulo m gives
\* h mod m, and so does raising it to d and then to e.
C1_RoundTrip ==
    pc = "signed" =>
        LET km == key[1]
            ke == key[2]
            kd == key[3]
            h  == get_hash(msg)
        IN  /\ raise_power_modulo(raise_power_modulo(h, ke, km), kd, km) = h % km
            /\ raise_power_modulo(raise_power_modulo(h, kd, km), ke, km) = h % km

\* C1 witness: a key with different exponents and a digest that is above the
\* modulus and shares a prime factor with it without being a multiple of it.
C1_Witness ==
    /\ pc = "signed"
    /\ key[2] # key[3]
    /\ get_hash(msg) >= key[1]
    /\ GcdRef(get_hash(msg), key[1]) > 1
    /\ get_hash(msg) % key[1] # 0
    /\ raise_power_modulo(raise_power_modulo(get_hash(msg), key[2], key[1]), key[3], key[1])
         = get_hash(msg) % key[1]

\* C2: Sign then verify. The signature sign_message returns for a message
\* under the private key (m, e) is accepted by verify_signature under the
\* public key (m, d), also when the hash of the message is m or more.
C2_SignThenVerify ==
    (pc = "verified" /\ vsig = sig) => verdict = "true"

\* C2 witness: the signature of a message whose hash is at least the
\* modulus was verified and accepted.
C2_Witness ==
    /\ pc = "verified"
    /\ vsig = sig
    /\ get_hash(msg) >= pub[1]
    /\ msg >= U32
    /\ verdict = "true"

\* C3 (as claimed): every 32-bit signature value other than the one
\* sign_message returns is rejected by verify_signature.
C3_IncorrectRejected ==
    (pc = "verified" /\ vsig # sig) => verdict = "false"

\* C4: Inverse law. When generate_key_pair is about to return, with
\* t = lcm(p - 1, q - 1), (e * d) mod t = 1, and check_vals(d, e, t) would
\* not panic; generation never panics.
C4_InverseLaw ==
    /\ pc # "panic"
    /\ pc = "return" =>
         /\ (e * d) % LcmRef(p - 1, q - 1) = 1
         /\ check_vals(d, e, n) = "ok"

\* C4 witness: generation reached its return with two different exponents.
C4_Witness ==
    /\ pc = "return"
    /\ e # d
    /\ (e * d) % n = 1
    /\ e * d > n

\* C5: Distinct primes. Every value get_random_prime returned is a prime in
\* [3, MAX_KEY_VAL), and once generate_two_primes has returned, p # q.
C5_DistinctPrimes ==
    /\ p # NONE => (IsPrimeRef(p) /\ 3 <= p /\ p < MAX_KEY_VAL)
    /\ q # NONE => (IsPrimeRef(q) /\ 3 <= q /\ q < MAX_KEY_VAL)
    /\ pc \in {"modulus", "exponent", "inverse", "return"} => p # q

\* C5 witness: generate_two_primes returned two different primes, the
\* second being the last value get_random_prime drew.
C5_Witness ==
    /\ pc = "modulus"
    /\ p # q
    /\ IsPrimeRef(p) /\ IsPrimeRef(q)
    /\ cand = q

\* C6: Exponent range. The exponent choose_private_exponent(t) returns has
\* 1 < e < t and gcd(e, t) = 1, and d = compute_public_exponent(e, t) has
\* 1 < d < t.
C6_ExponentRange ==
    /\ pc \in {"inverse", "return"} =>
         (1 < e /\ e < n /\ GcdRef(e, n) = 1)
    /\ pc = "return" => (1 < d /\ d < n)
    /\ pc = "inverse" => compute_public_exponent(e, n) # PANIC

\* C6 witness: both exponents were computed, and they differ.
C6_Witness ==
    /\ pc = "return"
    /\ 1 < e /\ e < n
    /\ 1 < d /\ d < n
    /\ d # e
    /\ n = LcmRef(p - 1, q - 1)

\* C7 (as claimed): verify_signature returns true or false on every
\* message, signature, modulus and exponent, modulus 0 and 1 included.
C7_VerifyTotal ==
    pc = "verify_done" => verdict \in {"true", "false"}

\* C8: Modular inverse. For m > 1, a > 0 and gcd(a, m) = 1, mmi(a, m)
\* returns the only b with 0 < b < m and (a * b) mod m = 1; the coefficient
\* the first loop leaves may be negative, and the result is that coefficient
\* plus a multiple of m.
C8_ModularInverse ==
    (pc = "mmi_done" /\ args[2] > 1 /\ args[1] > 0 /\ GcdRef(args[1], args[2]) = 1) =>
        /\ ret # PANIC
        /\ 0 < ret /\ ret < args[2]
        /\ (args[1] * ret) % args[2] = 1
        /\ \A b \in 1 .. (args[2] - 1) : (args[1] * b) % args[2] = 1 => b = ret
        /\ (ret - mmi_euclid(args[2], args[1], 0, 1)) % args[2] = 0

\* C8 witness: an inverse whose coefficient was negative and had m added
\* to it, for an argument above the modulus.
C8_Witness ==
    /\ pc = "mmi_done"
    /\ args[2] > 1
    /\ args[1] > args[2]
    /\ GcdRef(args[1], args[2]) = 1
    /\ mmi_euclid(args[2], args[1], 0, 1) < 0
    /\ ret = mmi_euclid(args[2], args[1], 0, 1) + args[2]
    /\ (args[1] * ret) % args[2] = 1

\* C9 (as claimed): mmi called with arguments that are not coprime panics.
C9_NotCoprimePanics ==
    (pc = "mmi_done" /\ GcdRef(args[1], args[2]) # 1) => ret = PANIC

\* C10: Modular exponentiation. For z >= 1, raise_power_modulo(x, y, z) is
\* x^y mod z over the integers: 0 when z = 1, 1 mod z when y = 0, and the
\* conversion of the result to u32 does not fail.
C10_ModularExponentiation ==
    (pc = "pow_done" /\ args[3] >= 1) =>
        /\ ret # PANIC
        /\ 0 <= ret /\ ret < U32
        /\ ret = PowModRef(args[1], args[2], args[3])
        /\ PowRef(args[1], args[2]) # PANIC => ret = PowRef(args[1], args[2]) % args[3]
        /\ args[3] = 1 => ret = 0
        /\ args[2] = 0 => ret = 1 % args[3]

\* C10 witness: a base and a modulus near the top of the u32 range, whose
\* products do not fit a u32, with an exponent of several bits.
C10_Witness ==
    /\ pc = "pow_done"
    /\ args[1] = U32 - 1
    /\ args[3] = U32 - 3
    /\ args[2] >= 5
    /\ ret = PowModRef(args[1], args[2], args[3])
    /\ ret > 1

\* C11: Primality test. For every n tried, is_prime(n) returns true exactly
\* when n has exactly two positive divisors (0 and 1 are not prime, 2 and 3
\* are), and the trial-division loop over i = 5, 11, 17, ... terminates.
C11_PrimalityTest ==
    /\ [](pc = "prime_done" =>
            /\ (verdict = "true") <=> IsPrimeRef(args[1])
            /\ is_prime(args[1]) <=> IsPrimeRef(args[1]))
    /\ [](pc = "prime_loop" => (cand % 6 = 5 /\ (cand - 6) * (cand - 6) <= args[1]))
    /\ <>(pc = "prime_done")

\* C11 witness: 1223 was found prime after the loop had tested
\* 5, 11, 17, 23 and 29 and stopped at 35.
C11_Witness ==
    /\ pc = "prime_done"
    /\ args[1] = 1223
    /\ cand = 35
    /\ verdict = "true"

\* C12: Signature range. For every message, exponent and modulus m >= 1,
\* sign_message(msg, m, exp) returns a value s with 0 <= s < m.
C12_SignatureRange ==
    (pc = "sign_done" /\ args[2] >= 1) => (0 <= ret /\ ret < args[2])

\* C12 witness: a message whose hash is above the modulus was signed and
\* the signature is the largest value below the modulus.
C12_Witness ==
    /\ pc = "sign_done"
    /\ args[2] > 1
    /\ args[3] >= 2
    /\ get_hash(args[1]) >= args[2]
    /\ ret = args[2] - 1

\* C13: No overflow in key generation. For all p, q in [3, MAX_KEY_VAL) the
\* u32 product p * q and the u32 lcm(p - 1, q - 1) are the values over the
\* integers: neither wraps nor panics.
C13_NoOverflow ==
    pc = "totient_done" =>
        /\ ret[1] = args[1] * args[2]
        /\ ret[2] = LcmRef(args[1] - 1, args[2] - 1)

\* C13 witness: the two largest values of the range, whose product is the
\* largest the program can form, and whose lcm is a full product.
C13_Witness ==
    /\ pc = "totient_done"
    /\ args = <<MAX_KEY_VAL - 1, MAX_KEY_VAL - 2>>
    /\ ret[1] = (MAX_KEY_VAL - 1) * (MAX_KEY_VAL - 2)
    /\ ret[1] > U32 \div 2
    /\ ret[2] = (MAX_KEY_VAL - 2) * (MAX_KEY_VAL - 3)

PrimeRange == 3 .. (MAX_KEY_VAL - 1)

\* The values gen_range(2, c) can yield, for every c generation can reach
\* (c = lcm(p - 1, q - 1) of two even numbers below MAX_KEY_VAL - 1)
ExponentRange == 2 .. (((MAX_KEY_VAL - 2) * (MAX_KEY_VAL - 3)) \div 2 - 1)

\* The random source eventually yields every value of the requested range:
\* if gen_range(3, MAX_KEY_VAL) is asked again and again, each value of the
\* range is yielded again and again; gen_range(2, c) is asked in one loop
\* only, where each value that stays possible is eventually yielded.
SourceYieldsEveryValue ==
    /\ []<>(pc \in {"prime_p", "prime_q"})
         => \A r \in PrimeRange : []<><<GetRandomPrime /\ cand' = r>>_vars
    /\ \A r \in ExponentRange : WF_vars(ChoosePrivateExponent /\ cand' = r)

\* The same, for each state of the caller: whatever first prime is held, if
\* the second one is asked for again and again, each value of the range is
\* yielded again and again.
SourceYieldsEveryValueInEveryState ==
    /\ []<>(pc = "prime_p")
         => \A r \in PrimeRange : []<><<GetRandomPrimeP /\ cand' = r>>_vars
    /\ \A pv \in {x \in PrimeRange : is_prime(x)} :
         []<>(pc = "prime_q" /\ p = pv)
           => \A r \in PrimeRange :
                []<><<GetRandomPrimeQ /\ p = pv /\ cand' = r>>_vars
    /\ \A r \in ExponentRange : WF_vars(ChoosePrivateExponent /\ cand' = r)

\* No loop has an iteration cap: a rejected draw, after any number of draws,
\* leaves the loop where it was and hands nothing on
NoIterationCap ==
    /\ (pc = "prime_p" /\ ~IsPrimeRef(cand')) => (pc' = "prime_p" /\ p' = p)
    /\ (pc = "prime_q" /\ ~IsPrimeRef(cand')) => (pc' = "prime_q" /\ q' = q)
    /\ (pc = "distinct" /\ p = q) => pc' = "prime_p"
    /\ (pc = "exponent" /\ GcdRef(cand', n) # 1) => (pc' = "exponent" /\ e' = e)

\* C16 as stated: if the random source eventually yields every value of the
\* requested range, generate_key_pair eventually returns.
C16_TerminatesIfEveryValue == SourceYieldsEveryValue => <>(pc = "ready")

\* C16, amended: if the random source eventually yields every value of the
\* requested range in every state of the caller, each rejection-sampling loop
\* exits and generate_key_pair eventually returns; no loop has an iteration
\* cap, so a rejected draw is followed by another draw and only accepted
\* candidates leave a loop.
C16_Termination ==
    /\ SourceYieldsEveryValueInEveryState => <>(pc = "ready")
    /\ [][NoIterationCap]_vars
    /\ [](pc = "prime_q" => IsPrimeRef(p))
    /\ [](pc = "distinct" => IsPrimeRef(q))
    /\ [](pc = "modulus" => p # q)
    /\ [](pc = "inverse" => GcdRef(e, n) = 1)
    /\ [](pc # "panic")

\* C16 witness: generation returned after MaxDraws or more draws, so after
\* rejected ones (a run without rejections draws three times)
C16_Witness == pc = "return" /\ draws = MaxDraws

\* C17: Effects on state. sign_message and verify_signature neither advance
\* the random source nor change a key value, and the returned key triple is
\* not changed by a later sign or verify; during generation every iteration
\* of get_random_prime and of choose_private_exponent consumes exactly one
\* draw, and every iteration of generate_two_primes runs get_random_prime
\* twice, once for p and then once for q, each to acceptance.
C17_EffectsOnState ==
    [][/\ pc \in {"ready", "signed", "verified"} =>
            /\ draws' = draws
            /\ key' = key /\ priv' = priv /\ pub' = pub
       /\ (pc \in {"prime_p", "prime_q", "exponent"} /\ draws < MaxDraws) =>
            draws' = draws + 1
       /\ pc \in {"start", "distinct", "modulus", "inverse"} =>
            /\ draws' = IF pc = "start" THEN 0 ELSE draws
            /\ cand' = cand
       /\ pc = "prime_p" =>
            \/ pc' = "prime_p" /\ p' = p /\ q' = q
            \/ pc' = "prime_q" /\ p' = cand' /\ q' = q
       /\ pc = "prime_q" =>
            \/ pc' = "prime_q" /\ p' = p /\ q' = q
            \/ pc' = "distinct" /\ q' = cand' /\ p' = p
       /\ pc = "distinct" => pc' \in {"prime_p", "modulus"}]_vars

\* C17 witness: a signature was made and verified with generated keys
C17_Witness ==
    /\ pc = "verified" /\ vsig = sig /\ verdict = "true"
    /\ key # <<>> /\ priv = <<key[1], key[2]>> /\ pub = <<key[1], key[3]>>
    /\ draws = NONE

\* The step looked at one more block of the vector
BlockStep == Len(blockchain') = Len(blockchain) + 1

\* The block the last step looked at
StepBlock == blockchain'[Len(blockchain')]

\* The step accepted its block: the loop goes on to the next one
StepAccepted == BlockStep /\ pc' = "chain_loop"

\* C18: Sufficient funds. verify_blockchain accepts a block whose from_addr
\* is not 0x0 only if the sender has a balance entry of at least the amount;
\* a sender without an entry is rejected even for amount 0, a sender with
\* less than the amount is rejected; the subtraction never underflows, so
\* the sender's new balance is the old one minus the amount, not below 0.
C18_SufficientFunds ==
    [][BlockStep =>
         /\ (StepAccepted /\ StepBlock.from_addr # 0) =>
              /\ balances[StepBlock.from_addr] # NONE
              /\ balances[StepBlock.from_addr] >= StepBlock.amount
              /\ balances'[StepBlock.from_addr] >= 0
              /\ StepBlock.to_addr # StepBlock.from_addr =>
                   balances'[StepBlock.from_addr]
                     = balances[StepBlock.from_addr] - StepBlock.amount
         /\ (StepBlock.from_addr # 0 /\ balances[StepBlock.from_addr] = NONE) =>
              (outcome'.kind = "err" /\ outcome'.check = "has_0")
         /\ (/\ StepBlock.from_addr # 0
             /\ balances[StepBlock.from_addr] # NONE
             /\ balances[StepBlock.from_addr] < StepBlock.amount) =>
              (outcome'.kind = "err" /\ outcome'.check = "only_has")
         /\ ~(outcome'.kind = "panic" /\ outcome'.check = "subtract")]_vars

\* C18 witness: address 1 held 2 coins and sent both to address 2
C18_Witness ==
    /\ pc = "chain_loop" /\ Len(blockchain) = 2
    /\ blockchain[2].from_addr = 1 /\ blockchain[2].to_addr = 2
    /\ blockchain[2].amount = 2
    /\ balances[1] = 0 /\ balances[2] = 2

\* C19: Address 0x0 is source only. Every block whose to_addr is 0x0 is
\* rejected, whatever its from_addr and amount; a block from 0x0 that is
\* accepted lowers no balance; while blocks are accepted and in the map that
\* is returned, address 0x0 has no entry.
C19_SourceOnly ==
    /\ [][BlockStep =>
            /\ StepBlock.to_addr = 0 => outcome'.kind = "err"
            /\ (StepAccepted /\ StepBlock.from_addr = 0) =>
                 \A a \in Addresses \ {StepBlock.to_addr} : balances'[a] = balances[a]]_vars
    /\ [](pc = "chain_loop" \/ outcome.kind = "ok" => balances[0] = NONE)

\* C19 witness: after an accepted block, a block from 0x0 to 0x0 of amount 0
\* was rejected for its to_addr
C19_Witness ==
    /\ pc = "chain_done" /\ Len(blockchain) = 2
    /\ outcome.kind = "err" /\ outcome.check = "to_0x0" /\ outcome.line = 1
    /\ blockchain[2].from_addr = 0 /\ blockchain[2].to_addr = 0
    /\ blockchain[2].amount = 0

\* The blocks of the vector that were accepted
AcceptedLen ==
    IF outcome.kind \in {"err", "panic"} THEN Len(blockchain) - 1 ELSE Len(blockchain)

\* C20: Hash chain. Block 0 is accepted only with prev_hash 0x0 and block
\* j > 0 only with prev_hash = get_hash(block j - 1); so in a chain that
\* verifies, replacing a block that has a successor by a block of another
\* hash, the later blocks kept as they are, gives a chain that does not
\* verify.
C20_HashChain ==
    /\ \A j \in 1 .. AcceptedLen :
         blockchain[j].prev_hash
           = IF j = 1 THEN 0 ELSE get_hash_block(blockchain[j - 1])
    /\ outcome.kind = "ok" =>
         /\ verify_blockchain(blockchain, build).kind = "ok"
         /\ \A i \in 1 .. (Len(blockchain) - 1) :
              \A b \in Blocks :
                get_hash_block(b) # get_hash_block(blockchain[i]) =>
                  verify_blockchain([blockchain EXCEPT ![i] = b], build).kind # "ok"

\* C20 witness: a chain of three blocks verified, the second and the third
\* linked by hashes other than 0x0
C20_Witness ==
    /\ outcome.kind = "ok" /\ Len(blockchain) = 3
    /\ blockchain[2].prev_hash # 0 /\ blockchain[3].prev_hash # 0
    /\ blockchain[2].prev_hash # blockchain[3].prev_hash

\* The sum of the balances of the addresses a .. MaxAddr that have an entry
RECURSIVE SumBalancesFrom(_, _)
SumBalancesFrom(bal, a) ==
    IF a > MaxAddr THEN 0 ELSE unwrap_or_0(bal, a) + SumBalancesFrom(bal, a + 1)

\* The sum of the amounts of the first k blocks whose from_addr is 0x0
RECURSIVE SumFromSource(_, _)
SumFromSource(bc, k) ==
    IF k = 0 THEN 0
    ELSE SumFromSource(bc, k - 1) + (IF bc[k].from_addr = 0 THEN bc[k].amount ELSE 0)

\* An accepted transfer between non-zero addresses moves exactly its amount
TransferMovesAmount ==
    (StepAccepted /\ StepBlock.from_addr # 0) =>
       \A a \in Addresses \ {0} :
          unwrap_or_0(balances', a)
            = unwrap_or_0(balances, a)
              - (IF a = StepBlock.from_addr THEN StepBlock.amount ELSE 0)
              + (IF a = StepBlock.to_addr THEN StepBlock.amount ELSE 0)

\* C21 (as claimed): after any prefix of accepted blocks the sum of all
\* balances equals the sum of the amounts of the accepted blocks from 0x0,
\* and a transfer between non-zero addresses, the same address twice
\* included, takes amount from the sender, gives amount to the recipient and
\* leaves every other balance as it was.
C21_Conservation ==
    /\ [](pc = "chain_loop" \/ outcome.kind = "ok" =>
            SumBalancesFrom(balances, 0) = SumFromSource(blockchain, AcceptedLen))
    /\ [][TransferMovesAmount]_vars

\* C22 (as claimed): a block from 0x0 to another address whose prev_hash
\* matches is accepted for every amount, whatever was accepted before, and
\* raises the recipient's balance by exactly the amount.
C22_InexhaustibleSource ==
    [][(/\ BlockStep
        /\ StepBlock.from_addr = 0
        /\ StepBlock.to_addr # 0
        /\ StepBlock.prev_hash = expected_prev_hash) =>
          /\ StepAccepted
          /\ balances'[StepBlock.to_addr]
               = unwrap_or_0(balances, StepBlock.to_addr) + StepBlock.amount]_vars

\* The block of this step fails the funds check
StepFundsFail ==
    /\ StepBlock.from_addr # 0
    /\ \/ balances[StepBlock.from_addr] = NONE
       \/ balances[StepBlock.from_addr] < StepBlock.amount

\* What Err the step returned: the index of its block and the reason
StepErr(reasons) ==
    /\ pc' = "chain_done"
    /\ outcome'.kind = "err"
    /\ outcome'.line = Len(blockchain)
    /\ outcome'.check \in reasons
    /\ balances' = <<>>

\* One step of verify_blockchain under first-error-wins
FirstErrorWinsStep ==
    /\ pc # "chain_done"
    /\ BlockStep =>
         /\ StepFundsFail => StepErr({"has_0", "only_has"})
         /\ (~StepFundsFail /\ StepBlock.to_addr = 0) => StepErr({"to_0x0"})
         /\ (/\ ~StepFundsFail /\ StepBlock.to_addr # 0
             /\ StepBlock.prev_hash # expected_prev_hash) => StepErr({"prev_hash"})
         /\ (/\ ~StepFundsFail /\ StepBlock.to_addr # 0
             /\ StepBlock.prev_hash = expected_prev_hash) => StepAccepted
    /\ ~BlockStep =>
         /\ outcome'.kind = "ok"
         /\ balances' = balances /\ blockchain' = blockchain

\* C23 (as claimed): verify_blockchain returns Ok(balances) exactly when
\* every block passes the funds check, the to-address check and the
\* prev-hash check; otherwise it returns Err for the first failing block,
\* naming its index, the reason being insufficient funds before send to 0x0
\* before prev-hash mismatch; no later block is examined and no balances are
\* returned.
C23_FirstErrorWins == [][FirstErrorWinsStep]_vars

\* The smallest positive multiple of BLOCK_SIZE that is not below l
SmallestMultipleRef(l) ==
    CHOOSE k \in 1 .. (l + BLOCK_SIZE) :
        /\ k % BLOCK_SIZE = 0 /\ k >= l
        /\ \A k2 \in 1 .. (k - 1) : ~(k2 % BLOCK_SIZE = 0 /\ k2 >= l)

\* The concatenation, in order, of a sequence of sequences
RECURSIVE ConcatRef(_)
ConcatRef(ss) == IF ss = <<>> THEN <<>> ELSE Head(ss) \o ConcatRef(Tail(ss))

\* C24: Padding and splitting. strengthen(data) has the smallest positive
\* multiple of BLOCK_SIZE not below len(data) as its length (BLOCK_SIZE for
\* no data), begins with data and goes on with zeros; split(data) returns
\* len(strengthen(data)) / BLOCK_SIZE blocks of BLOCK_SIZE bytes each whose
\* concatenation in order is strengthen(data).
C24_PaddingAndSplitting ==
    /\ pc \in {"split_call", "split_done"} =>
         /\ Len(ret) = SmallestMultipleRef(Len(data))
         /\ data = <<>> => Len(ret) = BLOCK_SIZE
         /\ \A i \in 1 .. Len(ret) : ret[i] = IF i <= Len(data) THEN data[i] ELSE 0
    /\ pc = "split_done" =>
         /\ Len(blocks) * BLOCK_SIZE = Len(ret)
         /\ \A j \in 1 .. Len(blocks) : Len(blocks[j]) = BLOCK_SIZE
         /\ ConcatRef(blocks) = ret

\* C24 witness: nine bytes were padded to sixteen and split into two blocks,
\* the second one the ninth byte and seven zeros
C24_Witness ==
    /\ pc = "split_done"
    /\ Len(data) = BLOCK_SIZE + 1 /\ data[1] = 97 /\ data[BLOCK_SIZE + 1] = 105
    /\ Len(ret) = 2 * BLOCK_SIZE
    /\ Len(blocks) = 2 /\ blocks[2] = <<105, 0, 0, 0, 0, 0, 0, 0>>

\* cv_k of the claim: cv_0 is the initialization vector and cv_k is
\* compress(cv_{k-1}, block_k), cv_{k-1} being a value when it is handed on
RECURSIVE ChainRef(_, _)
ChainRef(bs, k) ==
    IF k = 0
    THEN INITIALIZATION_VECTOR
    ELSE CHOOSE r \in {compress(prev, bs[k]) : prev \in {ChainRef(bs, k - 1)}} : TRUE

\* C25: Merkle-Damgard chaining. bill_hash(s) is finalize(cv_n) with cv_0
\* the initialization vector, cv_k = compress(cv_{k-1}, block_k) over the
\* blocks of split(s) in order and n = max(1, ceil(len(s) / BLOCK_SIZE));
\* finalize is the bitwise complement; compress is called once on each
\* block, each call with the value of the call before it.
C25_MerkleDamgard ==
    /\ pc = "hash_loop" =>
         Len(compressed) + Len(blocks) = Max2(1, (Len(data) + BLOCK_SIZE - 1) \div BLOCK_SIZE)
    /\ pc = "hash_done" =>
         LET bs == split(data)
             nn == Max2(1, (Len(data) + BLOCK_SIZE - 1) \div BLOCK_SIZE)
         IN  /\ Len(bs) = nn
             /\ Len(compressed) = nn
             /\ \A k \in 1 .. nn :
                  /\ compressed[k].block = bs[k]
                  /\ compressed[k].cv = ChainRef(bs, k - 1)
             /\ \A cv_n \in {ChainRef(bs, nn)} : cv = cv_n /\ ret = finalize(cv_n)
             /\ \A j \in 1 .. BLOCK_SIZE : ret[j] + cv[j] = 255

\* C25 witness: a string of seventeen bytes was hashed in three compress
\* calls, each starting from another value
C25_Witness ==
    /\ pc = "hash_done" /\ Len(data) = 2 * BLOCK_SIZE + 1
    /\ Len(compressed) = 3
    /\ compressed[1].cv = INITIALIZATION_VECTOR
    /\ compressed[2].cv # compressed[1].cv
    /\ compressed[3].cv # compressed[2].cv
    /\ compressed[3].block = <<data[2 * BLOCK_SIZE + 1], 0, 0, 0, 0, 0, 0, 0>>

====
